---- MODULE Spec2Model ----
(***************************************************************************)
(* Bounded session memory with a condensation block.                       *)
(*                                                                         *)
(* CondensedMemoryBlock (_aget, _aput) is translated from the notebook     *)
(* cell that defines it.  The Memory object that owns the live window      *)
(* (append, flush, render) is library code the notebook only calls: its    *)
(* append and flush follow the written specification, its render follows   *)
(* the notebook's recorded outputs for insert_method="user".               *)
(*                                                                         *)
(* A string is a sequence of pieces (TLA+ strings); the tokenizer assigns  *)
(* each piece a number of tokens, or raises on a special-token piece.      *)
(***************************************************************************)
EXTENDS Integers, Sequences, FiniteSets, TLC

\* CondensedMemoryBlock.token_limit, Field(default=50000)
DefaultTokenLimit == 50000

\* ev.index.as_retriever(similarity_top_k=2)
SimilarityTopK == 2

\* ------------------------------------------------------------------ bounds
MaxTurns == 3       \* turns appended to one session over a run
MaxBatch == 2       \* turns passed to one append / _aput call
MaxLimit == 5       \* largest token_limit of the condensation block
MaxMemLimit == 6    \* token_limit of the Memory (live window)
MaxSessionTurns == 2   \* turns appended over a run of several sessions
MaxChunks == 2      \* chunks the splitter makes of one retrieved node
MaxEvents == 3      \* events given to the event handlers

\* --------------------------------------------------------------- messages
\* a block of a message; its text is a string (a sequence of pieces)
Block(ty, str) == [type |-> ty, text |-> str]

TextBlock(t) == Block("text", << t >>)

ImageBlock == Block("image", << "png" >>)

KV(k, v) == [key |-> k, val |-> v]

ChatMessage(r, b, kw) == [role |-> r, blocks |-> b, additional_kwargs |-> kw]

\* The turns a session is fed.  additional_kwargs is an insertion-ordered
\* dict: a sequence of key/value pairs with distinct keys.
Messages ==
    { ChatMessage("user", << TextBlock("hello") >>, << >>),
      ChatMessage("assistant", << >>, << >>),
      ChatMessage("assistant", << TextBlock("capital of France") >>, << >>),
      ChatMessage("tool", << TextBlock("hello"), ImageBlock >>,
                  << KV("session_id", "test-mem-01"),
                     KV("tool_call_id", "call_1") >>) }

\* Every shape of message _aput tells apart: each role, text and non-text
\* blocks, additional_kwargs with and without a session_id.
BlockSeqs ==
    { << >>,
      << TextBlock("hello") >>,
      << TextBlock("hello"), TextBlock("capital of France") >>,
      << ImageBlock >>,
      << TextBlock("hello"), ImageBlock >> }

KVs ==
    { KV("session_id", "test-mem-01"), KV("session_id", "test-mem-02"),
      KV("tool_call_id", "call_1") }

KwargDicts ==
    { << >> } \cup { << a >> : a \in KVs }
    \cup { p \in KVs \X KVs : p[1].key # p[2].key }

AllMessages ==
    { ChatMessage(r, b, kw) :
        r \in {"user", "assistant", "tool", "system"},
        b \in BlockSeqs, kw \in KwargDicts }

\* A turn whose text holds a special token, on which encode() raises.
BadMessage == ChatMessage("user", << TextBlock("<|endoftext|>") >>, << >>)

RECURSIVE SeqsUpTo(_, _)
SeqsUpTo(S, n) ==
    IF n = 0 THEN { << >> }
    ELSE LET shorter == SeqsUpTo(S, n - 1)
         IN  shorter \cup { Append(s, x) : s \in shorter, x \in S }

\* --------------------------------------------------------------- tokenizer
\* tiktoken's encode(): the number of tokens of each piece.
PieceTokens(p) ==
    CASE p = "\n" -> 0
      [] p = "hello" -> 1
      [] p = "capital of France" -> 3
      [] p = "'tool_call_id': 'call_1'" -> 2
      [] p = "'session_id': 'test-mem-01'" -> 2
      [] p \in {"(", "{", "}", ")", ", "} -> 0
      [] OTHER -> 1

\* encode() raises ValueError on text that holds a special token.
EncodeRaises(str) == \E i \in 1..Len(str) : str[i] = "<|endoftext|>"

RECURSIVE EncodeLen(_)
EncodeLen(str) ==
    IF str = << >> THEN 0
    ELSE PieceTokens(Head(str)) + EncodeLen(Tail(str))

\* ------------------------------------------------- CondensedMemoryBlock
\* "\n".join(strs) for a sequence of strings
RECURSIVE Join(_)
Join(strs) ==
    IF strs = << >> THEN << >>
    ELSE IF Len(strs) = 1 THEN strs[1]
    ELSE strs[1] \o << "\n" >> \o Join(Tail(strs))

RECURSIVE TextsOf(_)
TextsOf(blocks) ==
    IF blocks = << >> THEN << >>
    ELSE IF Head(blocks).type = "text"
         THEN << Head(blocks).text >> \o TextsOf(Tail(blocks))
         ELSE TextsOf(Tail(blocks))

TextContents(message) == Join(TextsOf(message.blocks))

RoleTag(role) ==
    CASE role = "user" -> "<message role=MessageRole.USER>"
      [] role = "assistant" -> "<message role=MessageRole.ASSISTANT>"
      [] role = "tool" -> "<message role=MessageRole.TOOL>"
      [] OTHER -> "<message role=MessageRole.SYSTEM>"

\* mutant: the injected session_id is not filtered out
KeepKwargs(kw) == kw

FilterKwargs(kw) == SelectSeq(kw, LAMBDA e : e.key # "session_id")

KVStr(e) ==
    CASE e.key = "session_id" /\ e.val = "test-mem-01" -> "'session_id': 'test-mem-01'"
      [] e.key = "session_id" -> "'session_id': 'test-mem-02'"
      [] OTHER -> "'tool_call_id': 'call_1'"

RECURSIVE DictItems(_)
DictItems(kw) ==
    IF kw = << >> THEN << >>
    ELSE IF Len(kw) = 1 THEN << KVStr(kw[1]) >>
    ELSE << KVStr(kw[1]), ", " >> \o DictItems(Tail(kw))

DictStr(kw) == << "{" >> \o DictItems(kw) \o << "}" >>

\* the string _aput builds for one message
MemoryStr(message) ==
    LET text_contents == TextContents(message)
        kwargs == FilterKwargs(message.additional_kwargs)
    IN  << RoleTag(message.role) >>
        \o (IF text_contents # << >> THEN << "\n" >> \o text_contents ELSE << >>)
        \o (IF kwargs # << >>
            THEN << "\n", "(" >> \o DictStr(kwargs) \o << ")" >>
            ELSE << >>)
        \o << "\n", "</message>" >>

\* mutant: each string is inserted at the front, insert(0, memory_str)
RECURSIVE AppendStrsFront(_, _)
AppendStrsFront(memory, messages) ==
    IF messages = << >> THEN memory
    ELSE AppendStrsFront(<< MemoryStr(Head(messages)) >> \o memory, Tail(messages))

\* mutant: a message without text appends no string
RECURSIVE AppendStrsTextOnly(_, _)
AppendStrsTextOnly(memory, messages) ==
    IF messages = << >> THEN memory
    ELSE AppendStrsTextOnly(
             IF TextContents(Head(messages)) = << >> THEN memory
             ELSE Append(memory, MemoryStr(Head(messages))),
             Tail(messages))

\* the for loop of _aput: one string appended per message, in order
RECURSIVE AppendStrs(_, _)
AppendStrs(memory, messages) ==
    IF messages = << >> THEN memory
    ELSE AppendStrs(Append(memory, MemoryStr(Head(messages))), Tail(messages))

RECURSIVE MessageLength(_)
MessageLength(memory) ==
    IF memory = << >> THEN 0
    ELSE EncodeLen(Head(memory)) + MessageLength(Tail(memory))

\* mutant: current_memory[:-1], the newest string is dropped
DropNewest(memory) ==
    IF memory = << >> THEN << >> ELSE SubSeq(memory, 1, Len(memory) - 1)

\* mutant: the second oldest string is dropped, the oldest stays
DropSecond(memory) ==
    IF Len(memory) <= 1 THEN << >>
    ELSE << Head(memory) >> \o SubSeq(memory, 3, Len(memory))

\* current_memory[1:]
DropOldest(memory) == IF memory = << >> THEN << >> ELSE Tail(memory)

\* mutant: a block over the limit is emptied
TrimAll(memory, limit) ==
    IF MessageLength(memory) > limit THEN << >> ELSE memory

\* mutant: `if` for `while`, the oldest string is dropped at most once
TrimOnce(memory, limit) ==
    IF MessageLength(memory) > limit THEN DropOldest(memory) ELSE memory

\* mutant: `>=` for `>`
RECURSIVE TrimLoopGe(_, _)
TrimLoopGe(memory, limit) ==
    IF MessageLength(memory) >= limit /\ memory # << >>
    THEN TrimLoopGe(DropOldest(memory), limit)
    ELSE memory

\* the while loop of _aput
RECURSIVE TrimLoop(_, _)
TrimLoop(memory, limit) ==
    IF MessageLength(memory) > limit
    THEN TrimLoop(DropOldest(memory), limit)
    ELSE memory

\* the strings the while loop removes, element 0 at each iteration
RECURSIVE TrimLog(_, _)
TrimLog(memory, limit) ==
    IF MessageLength(memory) > limit /\ memory # << >>
    THEN << Head(memory) >> \o TrimLog(DropOldest(memory), limit)
    ELSE << >>

AnyRaises(memory) == \E i \in 1..Len(memory) : EncodeRaises(memory[i])

\* mutant: the while loop is left out
AputNoTrim(memory, messages, limit) == AppendStrs(memory, messages)

\* current_memory when _aput(messages) ends, by return or by exception
AputMemory(memory, messages, limit) ==
    LET grown == AppendStrs(memory, messages)
    IN  IF AnyRaises(grown) THEN grown ELSE TrimLoop(grown, limit)

AputRaises(memory, messages) == AnyRaises(AppendStrs(memory, messages))

\* _aget
Aget(memory) == Join(memory)

\* mutant: _aget hands the memory out and clears it
AgetDrains(memory) == << >>

\* current_memory when _aget ends: _aget assigns nothing
AgetMemory(memory) == memory

\* ------------------------------------------------------------ the session
VARIABLES
    live,              \* the live window: the unflushed turns, oldest first
    current_memory,    \* CondensedMemoryBlock.current_memory
    token_limit,       \* CondensedMemoryBlock.token_limit
    mem_token_limit,   \* Memory token_limit
    ratio,             \* chat_history_token_ratio, as num / den
    out,               \* what the last call returned (<< >> for None)
    lastOp,            \* the last call made
    lastBatch,         \* the turns given to the last call
    moved,             \* the turns the last call moved to the block
    appended,          \* history: every turn appended so far, in order
    evicted,           \* history: every string the block dropped, in order
    pending,           \* per caller: the append+flush unit it has to run
    arena,             \* session_id -> Session, for several sessions
    lists,             \* the list objects the sessions' blocks refer to
    call,              \* the session call made last, and how it ended
    tasks,             \* the coroutines scheduled on the event loop
    wf_events,         \* workflow: the events in flight, oldest first
    ctx_store,         \* workflow: the context store, key -> value
    trace,             \* workflow history: what the steps did, in order
    run,               \* workflow: the run's status and result
    events,            \* PromptEventHandler.events, the list of the class
    PROMPT_TEMPLATE,   \* PromptEventHandler instance -> its PROMPT_TEMPLATE
    handled            \* history: every handle call, [handler, event]

vars == << live, current_memory, token_limit, mem_token_limit, ratio, out,
           lastOp, lastBatch, moved, appended, evicted,
           pending, arena, lists, call, tasks,
           wf_events, ctx_store, trace, run,
           events, PROMPT_TEMPLATE, handled >>

\* the state of the other programs
workflow == << wf_events, ctx_store, trace, run >>

handlers == << events, PROMPT_TEMPLATE, handled >>

programs == << tasks, workflow, handlers >>

\* the state of several callers and several sessions, which the calls on
\* one session made by one caller leave alone
others == << pending, arena, lists, call, programs >>

SessionIds == {"test-mem-01", "test-mem-02"}

Callers == {"c1", "c2"}

NoSessionYet == [created |-> FALSE, live |-> << >>, block |-> 0]

NoCall == [session_id |-> "", resolved |-> TRUE, attempts |-> 0, error |-> ""]

NoRun == [status |-> "idle", result |-> "None"]

NoWorkflow ==
    /\ wf_events = << >>
    /\ ctx_store = << >>
    /\ trace = << >>
    /\ run = NoRun

\* the PromptEventHandler instances
Handlers == {"event_handler", "event_handler2"}

\* events: ClassVar[List[BaseEvent]] = []; PROMPT_TEMPLATE: str = ""
NoHandlers ==
    /\ events = << >>
    /\ PROMPT_TEMPLATE = [h \in Handlers |-> ""]
    /\ handled = << >>

NoPrograms ==
    /\ tasks = << >>
    /\ NoWorkflow
    /\ NoHandlers

NoOthers ==
    /\ NoPrograms
    /\ pending = [c \in Callers |-> [batch |-> << >>, done |-> TRUE]]
    /\ arena = [sid \in SessionIds |-> NoSessionYet]
    /\ lists = << >>
    /\ call = NoCall

config == << token_limit, mem_token_limit, ratio >>

\* chat_history_token_ratio values
Ratios ==
    { [num |-> 1, den |-> 10000], [num |-> 1, den |-> 2], [num |-> 1, den |-> 1] }

\* token cost of a turn: the cost of its rendered string form
TurnCost(t) == EncodeLen(MemoryStr(t))

RECURSIVE LiveCost(_)
LiveCost(lv) == IF lv = << >> THEN 0 ELSE TurnCost(Head(lv)) + LiveCost(Tail(lv))

\* live window token sum <= chat_history_token_ratio * token_limit
UnderBudget(lv, limit, r) == LiveCost(lv) * r.den <= r.num * limit

\* mutant: flush moves every turn of the live window
FlushCountAll(lv, limit, r) == Len(lv)

\* mutant: flush moves the oldest turn alone
FlushCountOne(lv, limit, r) ==
    IF lv = << >> \/ UnderBudget(lv, limit, r) THEN 0 ELSE 1

\* how many of the oldest turns flush moves: one at a time, oldest first,
\* until the threshold holds or the live window is empty
RECURSIVE FlushCount(_, _, _)
FlushCount(lv, limit, r) ==
    IF lv = << >> \/ UnderBudget(lv, limit, r) THEN 0
    ELSE 1 + FlushCount(Tail(lv), limit, r)

\* the strings the block dropped while taking in `messages`
Dropped(memory, messages, limit) ==
    LET grown == AppendStrs(memory, messages)
    IN  IF AnyRaises(grown) THEN << >> ELSE TrimLog(grown, limit)

\* flush, starting from live window lv
FlushFrom(lv) ==
    LET k == FlushCount(lv, mem_token_limit, ratio)
        batch == SubSeq(lv, 1, k)
    IN  /\ moved' = batch
        /\ live' = SubSeq(lv, k + 1, Len(lv))
        /\ current_memory' =
              IF k = 0 THEN current_memory
              ELSE AputMemory(current_memory, batch, token_limit)
        /\ evicted' =
              IF k = 0 THEN evicted
              ELSE evicted \o Dropped(current_memory, batch, token_limit)

\* the block's text as the Memory wraps it
MemoryContent(memory) ==
    << "<memory>", "\n", "<condensed_memory>", "\n" >> \o Aget(memory)
    \o << "\n", "</condensed_memory>", "\n", "</memory>" >>

MemoryBlocks(memory) == << Block("text", MemoryContent(memory)) >>

\* mutant: the memory is a synthetic turn placed first
InsertMemoryFirst(chat, memory) ==
    << ChatMessage("user", MemoryBlocks(memory), << >>) >> \o chat

\* insert_method = "user": the memory is combined into the latest user turn,
\* or, when the chat history holds none, added as a new user turn
InsertMemoryContent(chat, memory) ==
    LET users == { i \in 1..Len(chat) : chat[i].role = "user" }
    IN  IF users # {}
        THEN LET idx == CHOOSE i \in users : \A j \in users : j <= i
             IN  [chat EXCEPT ![idx].blocks = MemoryBlocks(memory) \o @]
        ELSE Append(chat, ChatMessage("user", MemoryBlocks(memory), << >>))

\* mutant: the memory is left out
RenderLiveOnly(lv, memory) == lv

\* what render returns
RenderOut(lv, memory) ==
    IF Aget(memory) = << >> THEN lv ELSE InsertMemoryContent(lv, memory)

Init ==
    /\ live = << >>
    /\ current_memory = << >>
    /\ token_limit \in {0, MaxLimit - 1, MaxLimit}
    /\ mem_token_limit = MaxMemLimit
    /\ ratio \in Ratios
    /\ out = << >>
    /\ lastOp = "init"
    /\ lastBatch = << >>
    /\ moved = << >>
    /\ appended = << >>
    /\ evicted = << >>
    /\ NoOthers

Batches == SeqsUpTo(Messages, MaxBatch) \ { << >> }

\* append that triggers no flush
AppendOnly(batch) ==
    /\ Len(appended) + Len(batch) <= MaxTurns
    /\ live' = live \o batch
    /\ appended' = appended \o batch
    /\ lastBatch' = batch
    /\ lastOp' = "append"
    /\ moved' = << >>
    /\ out' = << >>
    /\ UNCHANGED << current_memory, evicted, config, others >>

\* append that triggers a flush, as one step
AppendFlushStep(batch) ==
    /\ Len(appended) + Len(batch) <= MaxTurns
    /\ appended' = appended \o batch
    /\ lastBatch' = batch
    /\ FlushFrom(live \o batch)
    /\ lastOp' = "append_flush"
    /\ out' = << >>
    /\ UNCHANGED config

\* append that triggers a flush
AppendFlush(batch) ==
    /\ AppendFlushStep(batch)
    /\ UNCHANGED others

Flush ==
    /\ FlushFrom(live)
    /\ lastOp' = "flush"
    /\ lastBatch' = << >>
    /\ out' = << >>
    /\ UNCHANGED << appended, config, others >>

Render ==
    /\ out' = RenderOut(live, current_memory)
    /\ current_memory' = AgetMemory(current_memory)
    /\ lastOp' = "render"
    /\ lastBatch' = << >>
    /\ moved' = << >>
    /\ UNCHANGED << live, appended, evicted, config, others >>

Next ==
    \/ \E batch \in Batches : AppendOnly(batch)
    \/ \E batch \in Batches : AppendFlush(batch)
    \/ Flush
    \/ Render

Spec == Init /\ [][Next]_vars

\* ------------------------------------------------- the block on its own
\* _aput and _aget called directly on a CondensedMemoryBlock, with turns the
\* tokenizer may raise on
BlockBatches == SeqsUpTo(Messages \cup { BadMessage }, MaxBatch) \ { << >> }

AputCall(messages) ==
    /\ Len(appended) + Len(messages) <= MaxTurns
    /\ current_memory' = AputMemory(current_memory, messages, token_limit)
    /\ lastOp' = IF AputRaises(current_memory, messages)
                 THEN "aput_raised" ELSE "aput"
    /\ evicted' = evicted \o Dropped(current_memory, messages, token_limit)
    /\ appended' = appended \o messages
    /\ lastBatch' = messages
    /\ moved' = << >>
    /\ out' = << >>
    /\ UNCHANGED << live, config, others >>

AgetCall ==
    /\ out' = Aget(current_memory)
    /\ current_memory' = AgetMemory(current_memory)
    /\ lastOp' = "aget"
    /\ lastBatch' = << >>
    /\ UNCHANGED << live, moved, appended, evicted, config, others >>

NextBlock ==
    \/ \E messages \in BlockBatches : AputCall(messages)
    \/ AgetCall

SpecBlock == Init /\ [][NextBlock]_vars

Flushed == lastOp \in {"flush", "append_flush"}

\* ------------------------------------------------------------------ claims

\* C1: in every state between operations the total token cost of the strings
\* in the condensation block is at most token_limit, the one exception being
\* a block that holds exactly one entry whose own cost exceeds token_limit.
C1_CondensationBound ==
    \/ MessageLength(current_memory) <= token_limit
    \/ /\ Len(current_memory) = 1
       /\ EncodeLen(current_memory[1]) > token_limit

\* a flush pushed turns into the block, the block dropped its oldest strings
\* and still holds some
C1_Witness ==
    /\ Flushed
    /\ moved # << >>
    /\ evicted # << >>
    /\ current_memory # << >>

\* C2 (as claimed): a flush of a single turn whose rendered form costs more
\* than token_limit leaves the block holding exactly that one entry.
C2_OversizedEntryKept ==
    (Flushed /\ Len(moved) = 1 /\ TurnCost(moved[1]) > token_limit)
        => current_memory = << MemoryStr(moved[1]) >>

\* C3: after a flush the live window's token cost is at most
\* chat_history_token_ratio * token_limit, or the live window is empty.
C3_FlushUnderBudget ==
    Flushed => (UnderBudget(live, mem_token_limit, ratio) \/ live = << >>)

\* a flush found the live window over budget, moved turns and left some
C3_Witness ==
    /\ Flushed
    /\ moved # << >>
    /\ live # << >>

\* C4 (as claimed): a call during which the tokenizer raises leaves
\* current_memory exactly as it was before the call.
C4_AllOrNothing ==
    [][lastOp' = "aput_raised" => current_memory' = current_memory]_vars

\* the rendered strings of a sequence of turns, in order
Strs(turns) == [i \in 1..Len(turns) |-> MemoryStr(turns[i])]

\* C5: the block drops strings in the order they were inserted, so its
\* content is always the most recent contiguous part of the sequence of all
\* strings ever inserted: dropped strings, then the content, make up that
\* sequence.
C5_Fifo == evicted \o current_memory = Strs(appended)

\* several pushes, at least two strings dropped, some kept
C5_Witness ==
    /\ lastOp = "aput"
    /\ Len(evicted) >= 2
    /\ current_memory # << >>
    /\ evicted[1] # evicted[2]

\* C6: render changes neither the live window nor the block, and a render
\* that follows a render returns the same output.
C6_RenderPure ==
    [][lastOp' = "render" =>
          /\ live' = live
          /\ current_memory' = current_memory
          /\ (lastOp = "render" => out' = out)]_vars

\* a render of a session with a non-empty block and a non-empty live window
C6_Witness ==
    /\ lastOp = "render"
    /\ current_memory # << >>
    /\ live # << >>
    /\ out # << >>

\* the synthetic turn that carries the block's text
MemoryTurn == ChatMessage("user", MemoryBlocks(current_memory), << >>)

UserTurns(chat) == { i \in 1..Len(chat) : chat[i].role = "user" }

\* C7 (as claimed): render returns the block's text as one synthetic turn
\* placed first, followed by the live-window turns; with an empty block it
\* returns the live window alone.
C7_SyntheticFirst ==
    lastOp = "render" =>
        IF current_memory = << >> THEN out = live
        ELSE /\ Len(out) = Len(live) + 1
             /\ out[1].blocks = MemoryBlocks(current_memory)
             /\ Tail(out) = live

\* C7 (amended): with an empty block render returns the live window alone;
\* otherwise the output is the live-window turns in order with the block's
\* text carried by exactly one user turn: prepended to the content of the
\* latest user turn of the live window, or, when the live window holds no
\* user turn, as one synthetic user turn placed after the live turns.
C7_MemoryInUserTurn ==
    lastOp = "render" =>
        IF current_memory = << >> THEN out = live
        ELSE IF UserTurns(live) = {}
        THEN out = live \o << MemoryTurn >>
        ELSE /\ Len(out) = Len(live)
             /\ \A i \in 1..Len(live) :
                  IF i \in UserTurns(live) /\ \A j \in UserTurns(live) : j <= i
                  THEN /\ out[i].role = "user"
                       /\ out[i].blocks = MemoryBlocks(current_memory) \o live[i].blocks
                       /\ out[i].additional_kwargs = live[i].additional_kwargs
                  ELSE out[i] = live[i]

\* a render with a non-empty block and a live window of two turns, a user
\* turn followed by another turn
C7_Witness ==
    /\ lastOp = "render"
    /\ current_memory # << >>
    /\ Len(live) = 2
    /\ live[1].role = "user"
    /\ live[2].role # "user"

\* every appended turn costs more than the live-window threshold and the
\* block's token_limit is at least the cost of all of them
C8_Pre ==
    /\ appended # << >>
    /\ \A i \in 1..Len(appended) :
          ~UnderBudget(<< appended[i] >>, mem_token_limit, ratio)
    /\ token_limit >= LiveCost(appended)

\* C8: under C8_Pre, after the turns are appended to a fresh session and
\* flushed the live window is empty and the block holds exactly their
\* rendered strings in append order; render then returns one synthetic turn
\* with the block's text and no live turn.
C8_RoundTrip ==
    /\ (C8_Pre /\ Flushed) =>
          /\ live = << >>
          /\ current_memory = Strs(appended)
    /\ (C8_Pre /\ lastOp = "render" /\ live = << >>) =>
          out = << ChatMessage("user",
                      << Block("text",
                           << "<memory>", "\n", "<condensed_memory>", "\n" >>
                           \o Join(Strs(appended))
                           \o << "\n", "</condensed_memory>", "\n", "</memory>" >>) >>,
                      << >>) >>

\* two turns appended, flushed and rendered under C8_Pre
C8_Witness ==
    /\ C8_Pre
    /\ lastOp = "render"
    /\ live = << >>
    /\ Len(appended) >= 2
    /\ out # << >>

\* the frame of append and render: an append that triggers no flush leaves
\* the block alone and extends the live window at its newest end; the block
\* changes only in a call that flushes
C9_Frame ==
    /\ lastOp' = "append" =>
          /\ current_memory' = current_memory
          /\ live' = live \o lastBatch'
    /\ current_memory' # current_memory => lastOp' \in {"flush", "append_flush"}

\* the follow-up scenario: one user turn appended without a flush to a
\* session whose live window was empty and whose block is not, then render
C9_FollowUp ==
    /\ lastOp = "append"
    /\ lastOp' = "render"
    /\ Len(live) = 1
    /\ live = lastBatch
    /\ live[1].role = "user"
    /\ current_memory # << >>

\* C9 (as claimed): the frame, and in the follow-up scenario render returns
\* the condensation turn followed by the one newly appended turn.
C9_AppendFrameTwoTurns ==
    [][/\ C9_Frame
       /\ C9_FollowUp =>
             /\ Len(out') = 2
             /\ out'[1].blocks = MemoryBlocks(current_memory)
             /\ out'[2] = live[1]]_vars

\* C9 (amended): the frame, and in the follow-up scenario render returns a
\* single user turn: the block's text followed by the content of the one
\* newly appended turn.
C9_AppendFrame ==
    [][/\ C9_Frame
       /\ C9_FollowUp =>
             out' = << [live[1] EXCEPT
                          !.blocks = MemoryBlocks(current_memory) \o @] >>]_vars

\* the follow-up scenario has been rendered
C9_Witness ==
    /\ lastOp = "render"
    /\ Len(live) = 1
    /\ live[1].role = "user"
    /\ current_memory # << >>
    /\ Len(out) = 1
    /\ Len(appended) >= 2

\* C10: flush moves a prefix of the pre-flush live window, oldest first, and
\* stops as soon as the rest is at or below the threshold or empty; the rest
\* stays in the live window in unchanged order, and the moved turns' strings
\* are appended to the block in that same order (before it trims).
C10_FlushPrefix ==
    [][Flushed' =>
          LET pre == IF lastOp' = "append_flush" THEN live \o lastBatch' ELSE live
          IN  /\ pre = moved' \o live'
              /\ \A k \in 0..(Len(moved') - 1) :
                    ~UnderBudget(SubSeq(pre, k + 1, Len(pre)), mem_token_limit, ratio)
              /\ UnderBudget(live', mem_token_limit, ratio) \/ live' = << >>
              /\ evicted' \o current_memory'
                    = evicted \o current_memory \o Strs(moved')]_vars

\* a flush moved two different turns and left one in the live window
C10_Witness ==
    /\ Flushed
    /\ Len(moved) = 2
    /\ moved[1] # moved[2]
    /\ live # << >>
    /\ current_memory # << >>

\* ---------------------------------------------- one message into a block
\* _aput([message]) on a fresh block with the default token_limit, for every
\* shape of message
InitStr ==
    /\ live = << >>
    /\ current_memory = << >>
    /\ token_limit = DefaultTokenLimit
    /\ mem_token_limit = MaxMemLimit
    /\ ratio \in Ratios
    /\ out = << >>
    /\ lastOp = "init"
    /\ lastBatch = << >>
    /\ moved = << >>
    /\ appended = << >>
    /\ evicted = << >>
    /\ NoOthers

AputOne(message) ==
    /\ lastOp = "init"
    /\ AputCall(<< message >>)

NextStr == \E message \in AllMessages : AputOne(message)

SpecStr == InitStr /\ [][NextStr]_vars

\* additional_kwargs without its session_id entry
RECURSIVE NoSession(_)
NoSession(kw) ==
    IF kw = << >> THEN << >>
    ELSE IF Head(kw).key = "session_id" THEN NoSession(Tail(kw))
    ELSE << Head(kw) >> \o NoSession(Tail(kw))

SameButSession(m1, m2) ==
    /\ m1.role = m2.role
    /\ m1.blocks = m2.blocks
    /\ NoSession(m1.additional_kwargs) = NoSession(m2.additional_kwargs)

SessionPieces == { KVStr(e) : e \in { x \in KVs : x.key = "session_id" } }

\* C11: the string of a turn is the role tag, then the text (left out when
\* there is none), then the auxiliary data without session_id (left out when
\* nothing remains), then the closing tag; turns that differ only in their
\* session_id entry give the same string, and no session_id reaches the
\* block.
C11_SessionIdFiltered ==
    lastOp = "aput" =>
        LET m == lastBatch[1]
            str == current_memory[1]
            text == TextContents(m)
            aux == NoSession(m.additional_kwargs)
        IN  /\ Len(current_memory) = 1
            /\ str = << RoleTag(m.role) >>
                     \o (IF text = << >> THEN << >> ELSE << "\n" >> \o text)
                     \o (IF aux = << >> THEN << >>
                         ELSE << "\n", "(" >> \o DictStr(aux) \o << ")" >>)
                     \o << "\n", "</message>" >>
            /\ \A i \in 1..Len(str) : str[i] \notin SessionPieces
            /\ \A m2 \in AllMessages :
                  SameButSession(m, m2) => MemoryStr(m2) = str

\* a turn with text, a session_id and another auxiliary entry was pushed
C11_Witness ==
    /\ lastOp = "aput"
    /\ TextContents(lastBatch[1]) # << >>
    /\ Len(lastBatch[1].additional_kwargs) = 2
    /\ lastBatch[1].additional_kwargs[1].key = "session_id"
    /\ current_memory # << >>

\* ------------------------------------------------------ eviction is final
\* the strings pushed into the block so far: those of the appended turns that
\* have left the live window
Inserted(app, lv) == Strs(SubSeq(app, 1, Len(app) - Len(lv)))

\* how many of the pushed strings the block no longer holds
Gone(app, lv, memory) == Len(Inserted(app, lv)) - Len(memory)

\* the part of the pushed strings that follows the first `gone` of them
Kept(app, lv, gone) ==
    SubSeq(Inserted(app, lv), gone + 1, Len(Inserted(app, lv)))

\* C12: a string removed from the block never comes back: the block is always
\* the pushed strings from some position on, that position never moves
\* backwards, and a render shows, besides the live turns' own content, only
\* the text of the strings from that position on.
C12_EvictionPermanent ==
    [][LET gone == Gone(appended, live, current_memory)
           gone2 == Gone(appended', live', current_memory')
           kept2 == Kept(appended', live', gone2)
       IN  /\ gone2 >= gone
           /\ gone2 >= 0
           /\ current_memory' = kept2
           /\ lastOp' = "render" =>
                 \A i \in 1..Len(out') : \A j \in 1..Len(out'[i].blocks) :
                    \/ /\ i <= Len(live')
                       /\ \E k \in 1..Len(live'[i].blocks) :
                             out'[i].blocks[j] = live'[i].blocks[k]
                    \/ /\ kept2 # << >>
                       /\ out'[i].blocks[j] = Block("text", MemoryContent(kept2))]_vars

\* a render after the block dropped a string, with strings left in the block
\* and turns left in the live window
C12_Witness ==
    /\ lastOp = "render"
    /\ evicted # << >>
    /\ current_memory # << >>
    /\ live # << >>
    /\ out # << >>

\* -------------------------------------------------- conservation of history
\* C17: in every state between operations the rendered forms of all turns
\* appended so far, in append order, are the strings the block dropped, in
\* the order it dropped them, then the block's content, then the rendered
\* live window: no turn is duplicated and a turn leaves only by eviction.
C17_Conservation ==
    /\ evicted \o current_memory \o Strs(live) = Strs(appended)
    /\ Len(evicted) + Len(current_memory) + Len(live) = Len(appended)

\* turns are spread over the three places: one dropped, one in the block,
\* one in the live window
C17_Witness ==
    /\ evicted # << >>
    /\ current_memory # << >>
    /\ live # << >>
    /\ Len(appended) = MaxTurns

\* ------------------------------------------------------- minimal eviction
\* the last k strings of a sequence
Suffix(memory, k) == SubSeq(memory, Len(memory) - k + 1, Len(memory))

\* C18: an _aput that returns leaves the longest most recent part of
\* (previous content, then the new strings) whose token cost is at most
\* token_limit: nothing was dropped, or the part one string longer costs more
\* than token_limit.
C18_MinimalEviction ==
    [][lastOp' = "aput" =>
          LET grown == current_memory \o Strs(lastBatch')
              k == Len(current_memory')
          IN  /\ k <= Len(grown)
              /\ current_memory' = Suffix(grown, k)
              /\ MessageLength(current_memory') <= token_limit
              /\ \/ k = Len(grown)
                 \/ MessageLength(Suffix(grown, k + 1)) > token_limit
              /\ \A j \in 0..Len(grown) :
                    MessageLength(Suffix(grown, j)) <= token_limit => j <= k]_vars

\* a two-message _aput on a block that has dropped strings and keeps others
C18_Witness ==
    /\ lastOp = "aput"
    /\ evicted # << >>
    /\ Len(lastBatch) = MaxBatch
    /\ Len(appended) = MaxTurns
    /\ current_memory # << >>
    /\ Len(current_memory) < MaxTurns

\* ------------------------------------------------- batch and incremental
\* current_memory after one _aput per message, in order
RECURSIVE Incremental(_, _, _)
Incremental(memory, messages, limit) ==
    IF messages = << >> THEN memory
    ELSE Incremental(AputMemory(memory, << Head(messages) >>, limit),
                     Tail(messages), limit)

\* C19: one _aput with [m1..mn], which trims once after all n strings are
\* appended, leaves the same current_memory as n successive _aput calls with
\* [m1], ..., [mn], which trim after every append (token_limit >= 0, calls
\* that return).
C19_BatchIncremental ==
    [][lastOp' = "aput" =>
          current_memory' = Incremental(current_memory, lastBatch', token_limit)]_vars

\* a two-message _aput on a non-empty block after which the block has dropped
\* at least two strings
C19_Witness ==
    /\ lastOp = "aput"
    /\ Len(lastBatch) = MaxBatch
    /\ Len(appended) = MaxTurns
    /\ Len(evicted) >= 2
    /\ current_memory # << >>

\* ------------------------------------------------------ flush is idempotent
\* C20: a flush on a session whose live window is at or below the threshold
\* moves no turn and changes neither the live window nor the block; so a
\* flush right after a flush changes nothing.
C20_FlushIdempotent ==
    [][lastOp' = "flush" =>
          /\ (UnderBudget(live, mem_token_limit, ratio) \/ live = << >>) =>
                /\ moved' = << >>
                /\ live' = live
                /\ current_memory' = current_memory
                /\ evicted' = evicted
          /\ Flushed =>
                /\ moved' = << >>
                /\ live' = live
                /\ current_memory' = current_memory
                /\ evicted' = evicted]_vars

\* a flush that found the live window non-empty and at or below the
\* threshold, with strings in the block
C20_Witness ==
    /\ lastOp = "flush"
    /\ moved = << >>
    /\ live # << >>
    /\ current_memory # << >>
    /\ UnderBudget(live, mem_token_limit, ratio)

\* ------------------------------------------- the while loop, step by step
\* _aput run one statement group at a time; lastOp = "aput_loop" while the
\* call is at the test of its while loop. token_limit is an unconstrained
\* int field, so it may be negative.
LoopLimits == {-1, 0, MaxLimit - 1}

InitLoop ==
    /\ live = << >>
    /\ current_memory = << >>
    /\ token_limit \in LoopLimits
    /\ mem_token_limit = MaxMemLimit
    /\ ratio \in Ratios
    /\ out = << >>
    /\ lastOp = "init"
    /\ lastBatch = << >>
    /\ moved = << >>
    /\ appended = << >>
    /\ evicted = << >>
    /\ NoOthers

\* the for loop: every string is appended, control reaches the while test
AputAppend(messages) ==
    /\ lastOp # "aput_loop"
    /\ Len(appended) + Len(messages) <= MaxTurns
    /\ current_memory' = AppendStrs(current_memory, messages)
    /\ lastOp' = "aput_loop"
    /\ appended' = appended \o messages
    /\ lastBatch' = messages
    /\ moved' = << >>
    /\ out' = << >>
    /\ UNCHANGED << live, evicted, config, others >>

\* one iteration: the test holds, current_memory = current_memory[1:]
AputLoopBody ==
    /\ lastOp = "aput_loop"
    /\ MessageLength(current_memory) > token_limit
    /\ current_memory' = DropOldest(current_memory)
    /\ evicted' = evicted \o (IF current_memory = << >> THEN << >>
                              ELSE << Head(current_memory) >>)
    /\ UNCHANGED << live, out, lastOp, lastBatch, moved, appended, config,
                    others >>

\* the test fails, _aput returns
AputReturn ==
    /\ lastOp = "aput_loop"
    /\ ~(MessageLength(current_memory) > token_limit)
    /\ lastOp' = "aput"
    /\ UNCHANGED << live, current_memory, out, lastBatch, moved, appended,
                    evicted, config, others >>

NextLoop ==
    \/ \E messages \in Batches : AputAppend(messages)
    \/ AputLoopBody
    \/ AputReturn

SpecLoop == InitLoop /\ [][NextLoop]_vars

\* C15 (as claimed): the trimming loop terminates for every integer
\* token_limit: whenever the loop is about to run its body the block holds a
\* string to remove, so every iteration shortens the block and the loop ends.
C15_LoopTerminates ==
    (lastOp = "aput_loop" /\ MessageLength(current_memory) > token_limit)
        => current_memory # << >>

\* -------------------------------------------- several callers, one session
\* every caller has one append+flush unit to run on the same session; a unit
\* runs as one step, the callers' units run in any order
UnitPlans ==
    { p \in [Callers -> Batches \cup { << >> }] :
         Len(p["c1"]) + Len(p["c2"]) <= MaxTurns }

InitUnits ==
    /\ live = << >>
    /\ current_memory = << >>
    /\ token_limit \in {0, MaxLimit - 1, MaxLimit}
    /\ mem_token_limit = MaxMemLimit
    /\ ratio \in Ratios
    /\ out = << >>
    /\ lastOp = "init"
    /\ lastBatch = << >>
    /\ moved = << >>
    /\ appended = << >>
    /\ evicted = << >>
    /\ \E p \in UnitPlans :
          pending = [c \in Callers |-> [batch |-> p[c], done |-> p[c] = << >>]]
    /\ arena = [sid \in SessionIds |-> NoSessionYet]
    /\ lists = << >>
    /\ call = NoCall
    /\ NoPrograms

\* caller c runs its append+flush pair
Unit(c) ==
    /\ ~pending[c].done
    /\ AppendFlushStep(pending[c].batch)
    /\ pending' = [pending EXCEPT ![c].done = TRUE]
    /\ UNCHANGED << arena, lists, call, programs >>

NextUnits == \E c \in Callers : Unit(c)

SpecUnits == InitUnits /\ [][NextUnits]_vars

\* the turns of the units run so far, in one of the orders the callers can
\* have run them in
UnitOrders ==
    LET b1 == IF pending["c1"].done THEN pending["c1"].batch ELSE << >>
        b2 == IF pending["c2"].done THEN pending["c2"].batch ELSE << >>
    IN  { b1 \o b2, b2 \o b1 }

\* C13: with every caller's append+flush pair run as one step, in every
\* interleaving and after each unit the live window is at or below the
\* threshold or empty, the block's cost is at most token_limit, and every turn
\* appended by a unit is exactly once in the dropped strings, the block or the
\* live window.
C13_AtomicUnits ==
    lastOp = "append_flush" =>
        /\ UnderBudget(live, mem_token_limit, ratio) \/ live = << >>
        /\ MessageLength(current_memory) <= token_limit
        /\ appended \in UnitOrders
        /\ evicted \o current_memory \o Strs(live) = Strs(appended)

\* both callers ran their units, with different turns; the block dropped
\* strings and kept others
C13_Witness ==
    /\ lastOp = "append_flush"
    /\ \A c \in Callers : pending[c].done /\ pending[c].batch # << >>
    /\ pending["c1"].batch \o pending["c2"].batch
          # pending["c2"].batch \o pending["c1"].batch
    /\ evicted # << >>
    /\ current_memory # << >>

\* ------------------------------------------------------- several sessions
\* mutant: one list object is the default of every instance
SharedDefault(heap) == 1

\* default_factory=list: every instance gets a list object of its own; the
\* reference of the new list in the heap
DefaultFactory(heap) == Len(heap) + 1

\* CondensedMemoryBlock(name=...): the heap and the new instance's
\* current_memory reference
NewBlock(heap) ==
    LET ref == DefaultFactory(heap)
    IN  [lists |-> IF ref > Len(heap) THEN Append(heap, << >>) ELSE heap,
         block |-> ref]

\* _aput on the instance whose current_memory is the list at ref: append
\* extends that list in place, current_memory = current_memory[1:] binds the
\* field to a new list
BlockAput(heap, ref, messages, limit) ==
    LET grown == AppendStrs(heap[ref], messages)
        heap1 == [heap EXCEPT ![ref] = grown]
    IN  IF MessageLength(grown) > limit
        THEN [lists |-> Append(heap1, TrimLoop(grown, limit)),
              block |-> Len(heap1) + 1]
        ELSE [lists |-> heap1, block |-> ref]

\* the store resolves sid, creating the session and its block on first use
Resolved(ar, heap, sid) ==
    IF ar[sid].created THEN [arena |-> ar, lists |-> heap]
    ELSE LET nb == NewBlock(heap)
         IN  [arena |-> [ar EXCEPT ![sid] = [created |-> TRUE, live |-> << >>,
                                             block |-> nb.block]],
              lists |-> nb.lists]

\* mutant: a failed resolution leaves a half-made session behind
OnFailureCreates(ar, sid) == [ar EXCEPT ![sid].created = TRUE]

\* the arena after the store failed to resolve or create sid
OnFailure(ar, sid) == ar

\* flush of session sid, whose live window is lv
SessionFlush(ar, heap, sid, lv) ==
    LET k == FlushCount(lv, mem_token_limit, ratio)
        put == IF k = 0 THEN [lists |-> heap, block |-> ar[sid].block]
               ELSE BlockAput(heap, ar[sid].block, SubSeq(lv, 1, k), token_limit)
    IN  [arena |-> [ar EXCEPT ![sid].live = SubSeq(lv, k + 1, Len(lv)),
                              ![sid].block = put.block],
         lists |-> put.lists]

Ok(sid) == [session_id |-> sid, resolved |-> TRUE, attempts |-> 1, error |-> ""]

Failed(sid) ==
    [session_id |-> sid, resolved |-> FALSE, attempts |-> 1,
     error |-> "InvalidSessionError"]

InitSessions ==
    /\ live = << >>
    /\ current_memory = << >>
    /\ token_limit = MaxLimit - 1
    /\ mem_token_limit = MaxMemLimit
    /\ ratio = [num |-> 1, den |-> 10000]
    /\ out = << >>
    /\ lastOp = "init"
    /\ lastBatch = << >>
    /\ moved = << >>
    /\ appended = << >>
    /\ evicted = << >>
    /\ pending = [c \in Callers |-> [batch |-> << >>, done |-> TRUE]]
    /\ arena = [sid \in SessionIds |-> NoSessionYet]
    /\ lists = << >>
    /\ call = NoCall
    /\ NoPrograms

\* append(session_id, turns); the store resolves the session or fails to,
\* and the append triggers a flush or does not
SessionAppend(sid, batch, resolves, flushes) ==
    /\ Len(appended) + Len(batch) <= MaxSessionTurns
    /\ lastOp' = "append"
    /\ out' = << >>
    /\ IF ~resolves
       THEN /\ call' = Failed(sid)
            /\ arena' = OnFailure(arena, sid)
            /\ UNCHANGED << lists, appended >>
       ELSE LET r == Resolved(arena, lists, sid)
                lv == r.arena[sid].live \o batch
                f == SessionFlush(r.arena, r.lists, sid, lv)
            IN  /\ call' = Ok(sid)
                /\ appended' = appended \o batch
                /\ arena' = IF flushes THEN f.arena
                            ELSE [r.arena EXCEPT ![sid].live = lv]
                /\ lists' = IF flushes THEN f.lists ELSE r.lists
    /\ UNCHANGED << live, current_memory, lastBatch, moved, evicted, pending,
                    config, programs >>

\* flush(session_id)
SessionFlushCall(sid) ==
    /\ lastOp' = "flush"
    /\ out' = << >>
    /\ call' = Ok(sid)
    /\ LET r == Resolved(arena, lists, sid)
           f == SessionFlush(r.arena, r.lists, sid, r.arena[sid].live)
       IN  /\ arena' = f.arena
           /\ lists' = f.lists
    /\ UNCHANGED << live, current_memory, lastBatch, moved, appended, evicted,
                    pending, config, programs >>

\* render(session_id)
SessionRender(sid) ==
    /\ lastOp' = "render"
    /\ call' = Ok(sid)
    /\ LET r == Resolved(arena, lists, sid)
       IN  /\ arena' = r.arena
           /\ lists' = r.lists
           /\ out' = RenderOut(r.arena[sid].live, r.lists[r.arena[sid].block])
    /\ UNCHANGED << live, current_memory, lastBatch, moved, appended, evicted,
                    pending, config, programs >>

NextSessions ==
    \/ \E sid \in SessionIds, m \in Messages, resolves, flushes \in BOOLEAN :
          SessionAppend(sid, << m >>, resolves, flushes)
    \/ \E sid \in SessionIds : SessionFlushCall(sid)
    \/ \E sid \in SessionIds : SessionRender(sid)

SpecSessions == InitSessions /\ [][NextSessions]_vars

\* what the block of session sid holds
SessionMemory(ar, heap, sid) ==
    IF ar[sid].created THEN heap[ar[sid].block] ELSE << >>

\* C14: an append whose session the store cannot resolve or create fails
\* with InvalidSessionError after a single attempt, and no session's live
\* window or block is changed.
C14_InvalidSession ==
    [][(lastOp' = "append" /\ ~call'.resolved) =>
          /\ call'.error = "InvalidSessionError"
          /\ call'.attempts = 1
          /\ appended' = appended
          /\ \A sid \in SessionIds :
                /\ arena'[sid] = arena[sid]
                /\ SessionMemory(arena', lists', sid)
                      = SessionMemory(arena, lists, sid)]_vars

\* a failed append on a session_id not yet created, while the other session
\* holds a string in its block
C14_Witness ==
    /\ lastOp = "append"
    /\ ~call.resolved
    /\ call.error = "InvalidSessionError"
    /\ ~arena[call.session_id].created
    /\ \E sid \in SessionIds : SessionMemory(arena, lists, sid) # << >>

\* C16: every session_id has a live window and a block of its own, made on
\* first use and kept: a call on one session_id leaves the live window and
\* the block content of every other session_id as they were, no session
\* goes away, and two block instances never share current_memory.
C16_SessionIsolation ==
    [][/\ \A sid \in SessionIds :
             sid # call'.session_id =>
                /\ arena'[sid].created = arena[sid].created
                /\ arena'[sid].live = arena[sid].live
                /\ SessionMemory(arena', lists', sid)
                      = SessionMemory(arena, lists, sid)
       /\ \A sid \in SessionIds : arena[sid].created => arena'[sid].created
       /\ \A s1, s2 \in SessionIds :
             (s1 # s2 /\ arena'[s1].created /\ arena'[s2].created)
                => arena'[s1].block # arena'[s2].block]_vars

\* both sessions hold a string in their blocks, not the same one, after an
\* append to one of them
C16_Witness ==
    /\ lastOp = "append"
    /\ call.resolved
    /\ \A sid \in SessionIds : SessionMemory(arena, lists, sid) # << >>
    /\ SessionMemory(arena, lists, "test-mem-01")
          # SessionMemory(arena, lists, "test-mem-02")

\* ------------------------------------- coroutines on one block, one loop
\* _aput and _aget coroutines on the same block, scheduled together on one
\* event loop; the loop resumes one coroutine at a time and that coroutine
\* runs up to its next suspension point
TaskIds == {"t1", "t2", "t3"}

\* mutant: _aput awaits between its for loop and its while loop
AputSegmentsAwait == << << "append" >>, << "trim" >> >>

\* the statement groups of _aput between suspension points: its body holds no
\* await, so the whole body is one segment
AputSegments == << << "append", "trim" >> >>

\* _aget: a single return statement
AgetSegments == << << "join" >> >>

Segments(kind) == IF kind = "aput" THEN AputSegments ELSE AgetSegments

Has(stmts, st) == \E i \in 1..Len(stmts) : stmts[i] = st

\* current_memory after the statement groups stmts of a call with messages
RECURSIVE RunStmts(_, _, _, _)
RunStmts(memory, stmts, messages, limit) ==
    IF stmts = << >> THEN memory
    ELSE RunStmts(
             CASE Head(stmts) = "append" -> AppendStrs(memory, messages)
               [] Head(stmts) = "trim" -> TrimLoop(memory, limit)
               [] OTHER -> AgetMemory(memory),
             Tail(stmts), messages, limit)

\* the strings dropped while running stmts
RECURSIVE RunDrops(_, _, _, _)
RunDrops(memory, stmts, messages, limit) ==
    IF stmts = << >> THEN << >>
    ELSE (IF Head(stmts) = "trim" THEN TrimLog(memory, limit) ELSE << >>)
         \o RunDrops(RunStmts(memory, << Head(stmts) >>, messages, limit),
                     Tail(stmts), messages, limit)

Task(kind, messages) ==
    [kind |-> kind, messages |-> messages, pc |-> 1, view |-> << >>]

TaskPlans ==
    { p \in [TaskIds -> { Task("aput", b) : b \in Batches }
                        \cup { Task("aget", << >>) }] :
         /\ p["t1"].kind = "aput"
         /\ p["t2"].kind = "aput"
         /\ p["t3"].kind = "aget"
         /\ Len(p["t1"].messages) + Len(p["t2"].messages) <= MaxTurns }

InitEventLoop ==
    /\ live = << >>
    /\ current_memory = << >>
    /\ token_limit \in {0, MaxLimit - 1, MaxLimit}
    /\ mem_token_limit = MaxMemLimit
    /\ ratio = [num |-> 1, den |-> 1]
    /\ out = << >>
    /\ lastOp = "init"
    /\ lastBatch = << >>
    /\ moved = << >>
    /\ appended = << >>
    /\ evicted = << >>
    /\ pending = [c \in Callers |-> [batch |-> << >>, done |-> TRUE]]
    /\ arena = [sid \in SessionIds |-> NoSessionYet]
    /\ lists = << >>
    /\ call = NoCall
    /\ tasks \in TaskPlans
    /\ NoWorkflow
    /\ NoHandlers

TaskDone(t) == tasks[t].pc > Len(Segments(tasks[t].kind))

\* the loop resumes coroutine t, which runs its next segment
Resume(t) ==
    /\ ~TaskDone(t)
    /\ LET tk == tasks[t]
           seg == Segments(tk.kind)[tk.pc]
       IN  /\ current_memory' =
                  RunStmts(current_memory, seg, tk.messages, token_limit)
           /\ evicted' = evicted
                  \o RunDrops(current_memory, seg, tk.messages, token_limit)
           /\ appended' = IF Has(seg, "append") THEN appended \o tk.messages
                          ELSE appended
           /\ out' = IF Has(seg, "join") THEN Aget(current_memory) ELSE << >>
           /\ tasks' = [tasks EXCEPT
                          ![t].pc = @ + 1,
                          ![t].view = IF Has(seg, "join") THEN current_memory
                                      ELSE @]
           /\ lastOp' = tk.kind
           /\ lastBatch' = tk.messages
    /\ UNCHANGED << live, moved, config, pending, arena, lists, call, workflow,
                    handlers >>

NextEventLoop == \E t \in TaskIds : Resume(t)

SpecEventLoop == InitEventLoop /\ [][NextEventLoop]_vars

AputTasks == { t \in TaskIds : tasks[t].kind = "aput" }

\* the ways of running some of the _aput calls one after another
Orders ==
    { o \in SeqsUpTo(AputTasks, Cardinality(AputTasks)) :
         \A i, j \in 1..Len(o) : i # j => o[i] # o[j] }

\* current_memory after the _aput calls of order, run one after another
RECURSIVE Serial(_, _)
Serial(memory, order) ==
    IF order = << >> THEN memory
    ELSE Serial(AputMemory(memory, tasks[Head(order)].messages, token_limit),
                Tail(order))

\* C21: _aput and _aget coroutines scheduled together on one block do not
\* interleave: when all have ended current_memory is what running the _aput
\* calls one after another in some order leaves, and every _aget saw a block
\* that some of the _aput calls, run whole one after another, leave: its cost
\* is at most token_limit and no batch is partly in it.
C21_NoInterleaving ==
    /\ (\A t \in TaskIds : TaskDone(t)) =>
          \E o \in Orders :
             /\ Len(o) = Cardinality(AputTasks)
             /\ current_memory = Serial(<< >>, o)
    /\ \A t \in TaskIds :
          (tasks[t].kind = "aget" /\ TaskDone(t)) =>
             /\ MessageLength(tasks[t].view) <= token_limit
             /\ \E o \in Orders : tasks[t].view = Serial(<< >>, o)

\* all coroutines have ended; the _aget ran between the two _aput calls and
\* saw a block that the later _aput changed
C21_Witness ==
    /\ \A t \in TaskIds : TaskDone(t)
    /\ tasks["t3"].view # << >>
    /\ tasks["t3"].view # current_memory
    /\ evicted # << >>
    /\ current_memory # << >>

\* ======================================================= the workflows
\* the memory block, its sessions and coroutines
memory_state ==
    << live, current_memory, token_limit, mem_token_limit, ratio, out, lastOp,
       lastBatch, moved, appended, evicted, pending, arena, lists, call, tasks >>

\* what no workflow touches
memory_side == << memory_state, handlers >>

NoMemory ==
    /\ live = << >>
    /\ current_memory = << >>
    /\ token_limit = DefaultTokenLimit
    /\ mem_token_limit = MaxMemLimit
    /\ ratio = [num |-> 1, den |-> 1]
    /\ out = << >>
    /\ lastOp = "init"
    /\ lastBatch = << >>
    /\ moved = << >>
    /\ appended = << >>
    /\ evicted = << >>
    /\ pending = [c \in Callers |-> [batch |-> << >>, done |-> TRUE]]
    /\ arena = [sid \in SessionIds |-> NoSessionYet]
    /\ lists = << >>
    /\ call = NoCall
    /\ tasks = << >>
    /\ NoHandlers

\* one entry of the history: a step started, a context store access, an
\* outside call, an event returned, an exception
Did(op, arg) == [op |-> op, arg |-> arg, val |-> "None"]

\* the same, with the value read, written or carried
DidVal(op, arg, val) == [op |-> op, arg |-> arg, val |-> val]

\* ctx.store.set(key, value)
StoreSet(store, key, value) ==
    [k \in DOMAIN store \cup { key } |-> IF k = key THEN value ELSE store[k]]

\* ctx.store.get(key, default=None)
StoreGet(store, key) == IF key \in DOMAIN store THEN store[key] ELSE "None"

\* the names of the steps run so far, in order
RECURSIVE StepsRun(_)
StepsRun(tr) ==
    IF tr = << >> THEN << >>
    ELSE (IF Head(tr).op = "step" THEN << Head(tr).arg >> ELSE << >>)
         \o StepsRun(Tail(tr))

DidAny(tr, op, arg) == \E i \in 1..Len(tr) : tr[i].op = op /\ tr[i].arg = arg

IsPrefix(a, b) == Len(a) <= Len(b) /\ SubSeq(b, 1, Len(a)) = a

\* ------------------------------------------ CitationQueryEngineWorkflow
ChunkTexts == {"a", "b"}

Scores == {1, 2}

\* a retrieved NodeWithScore: the chunks the splitter makes of its content,
\* and its score
RetrievedNodes ==
    { [chunks |-> c, score |-> sc] :
         c \in SeqsUpTo(ChunkTexts, MaxChunks), sc \in Scores }

\* what retriever.retrieve(query) may return
NodeLists == SeqsUpTo(RetrievedNodes, SimilarityTopK)

\* w.run(query=..., index=...); "None" stands for None and for a keyword
\* left out, which ev.get reads as None
Queries == {"None", "", "What information do you have"}

Indexes == {"None", "index"}

StartEvent(query, index) ==
    [type |-> "StartEvent", query |-> query, index |-> index]

RetrieverEvent(nodes) == [type |-> "RetrieverEvent", nodes |-> nodes]

CreateCitationsEvent(nodes) == [type |-> "CreateCitationsEvent", nodes |-> nodes]

StopEvent(result) == [type |-> "StopEvent", result |-> result]

\* mutant: `if query is None`
FalsyNoneOnly(v) == v = "None"

\* `not query`
Falsy(v) == v \in {"None", ""}

\* mutant: the query is stored after the index check
StoresQueryLate(query, index) == ~Falsy(query) /\ index # "None"

\* whether retrieve reaches ctx.store.set("query", query): the early return
\* for a falsy query comes before it, the index check after it
StoresQuery(query, index) == ~Falsy(query)

\* text_splitter.split_text(node.node.get_content(...))
SplitText(node) == node.chunks

\* f"Source {n}:\n{text_chunk}\n"
SourceText(n, text_chunk) == [source |-> n, chunk |-> text_chunk]

\* mutant: the sources are numbered within each retrieved node
RECURSIVE ChunkLoopPerNode(_, _, _)
ChunkLoopPerNode(new_nodes, node, text_chunks) ==
    IF text_chunks = << >> THEN new_nodes
    ELSE ChunkLoopPerNode(
             Append(new_nodes,
                    [text |-> SourceText(Len(SplitText(node)) - Len(text_chunks) + 1,
                                         Head(text_chunks)),
                     score |-> node.score]),
             node, Tail(text_chunks))

\* the inner for loop of create_citation_nodes
RECURSIVE ChunkLoop(_, _, _)
ChunkLoop(new_nodes, node, text_chunks) ==
    IF text_chunks = << >> THEN new_nodes
    ELSE ChunkLoop(
             Append(new_nodes,
                    [text |-> SourceText(Len(new_nodes) + 1, Head(text_chunks)),
                     score |-> node.score]),
             node, Tail(text_chunks))

\* the outer for loop of create_citation_nodes
RECURSIVE NodeLoop(_, _)
NodeLoop(new_nodes, nodes) ==
    IF nodes = << >> THEN new_nodes
    ELSE NodeLoop(ChunkLoop(new_nodes, Head(nodes), SplitText(Head(nodes))),
                  Tail(nodes))

\* what synthesizer.asynthesize(query, nodes=nodes) returns
Response(query, nodes) ==
    [type |-> "Response", query |-> query, source_nodes |-> nodes]

InitCitation ==
    /\ NoMemory
    /\ \E query \in Queries, index \in Indexes :
          /\ wf_events = << StartEvent(query, index) >>
          /\ run = [status |-> "running", result |-> "None",
                    start |-> StartEvent(query, index)]
    /\ ctx_store = << >>
    /\ trace = << >>

Running(type) ==
    /\ run.status = "running"
    /\ wf_events # << >>
    /\ Head(wf_events).type = type

\* the step ends by an exception: the run fails
Fails(did) ==
    /\ trace' = trace \o did \o << Did("raise", "error") >>
    /\ wf_events' = << >>
    /\ run' = [run EXCEPT !.status = "failed"]

\* retrieve(ctx, ev: StartEvent)
Retrieve ==
    /\ Running("StartEvent")
    /\ LET ev == Head(wf_events)
           query == ev.query
           stores == StoresQuery(query, ev.index)
           did == << Did("step", "retrieve") >>
                  \o (IF stores THEN << Did("ctx.set", "query") >> ELSE << >>)
       IN  /\ ctx_store' = IF stores THEN StoreSet(ctx_store, "query", query)
                           ELSE ctx_store
           /\ IF Falsy(query) \/ ev.index = "None"
              THEN /\ trace' = trace \o did
                   /\ wf_events' = Tail(wf_events)
                   /\ run' = run
              ELSE \/ \E nodes \in NodeLists :
                         /\ trace' = trace \o did
                               \o << Did("call", "retriever.retrieve"),
                                     Did("emit", "RetrieverEvent") >>
                         /\ wf_events' = Tail(wf_events)
                               \o << RetrieverEvent(nodes) >>
                         /\ run' = run
                   \/ Fails(did \o << Did("call", "retriever.retrieve") >>)
    /\ UNCHANGED memory_side

\* create_citation_nodes(ev: RetrieverEvent)
CreateCitationNodes ==
    /\ Running("RetrieverEvent")
    /\ LET nodes == Head(wf_events).nodes
       IN  wf_events' = Tail(wf_events)
              \o << CreateCitationsEvent(NodeLoop(<< >>, nodes)) >>
    /\ trace' = trace \o << Did("step", "create_citation_nodes"),
                            Did("emit", "CreateCitationsEvent") >>
    /\ UNCHANGED << ctx_store, run, memory_side >>

\* synthesize(ctx, ev: CreateCitationsEvent)
Synthesize ==
    /\ Running("CreateCitationsEvent")
    /\ LET ev == Head(wf_events)
           query == StoreGet(ctx_store, "query")
           did == << Did("step", "synthesize"), Did("ctx.get", "query"),
                     Did("call", "synthesizer.asynthesize") >>
       IN  \/ /\ trace' = trace \o did \o << Did("emit", "StopEvent") >>
              /\ wf_events' = Tail(wf_events)
                    \o << StopEvent(Response(query, ev.nodes)) >>
              /\ run' = run
           \/ Fails(did)
    /\ UNCHANGED << ctx_store, memory_side >>

\* the workflow takes the StopEvent: w.run returns its result
StopRun ==
    /\ Running("StopEvent")
    /\ run' = [run EXCEPT !.status = "stopped", !.result = Head(wf_events).result]
    /\ wf_events' = Tail(wf_events)
    /\ UNCHANGED << ctx_store, trace, memory_side >>

NextCitation ==
    \/ Retrieve
    \/ CreateCitationNodes
    \/ Synthesize
    \/ StopRun

\* the workflow runs a step whenever an event it accepts is in flight
SpecCitation ==
    InitCitation /\ [][NextCitation]_vars /\ WF_vars(NextCitation)

CitationOrder == << "retrieve", "create_citation_nodes", "synthesize" >>

\* the run was started with a non-empty query and an index
ValidStart ==
    /\ run.start.query # "None"
    /\ run.start.query # ""
    /\ run.start.index # "None"

\* a StopEvent ended the run and carries the response synthesized for the
\* started query
StoppedWithResponse ==
    /\ run.status = "stopped"
    /\ StepsRun(trace) = CitationOrder
    /\ run.result.type = "Response"
    /\ run.result.query = run.start.query

\* C22 (as claimed): in every run the steps occur in the order retrieve,
\* create_citation_nodes, synthesize, each at most once, and the run ends
\* with a StopEvent carrying the synthesized response: once no event is in
\* flight and no call has raised, the run has stopped with that response.
C22_EveryRunStops ==
    /\ IsPrefix(StepsRun(trace), CitationOrder)
    /\ (wf_events = << >> /\ run.status # "failed") => StoppedWithResponse

\* C22 (amended): the steps occur in the order retrieve,
\* create_citation_nodes, synthesize, each at most once; a run started with a
\* non-empty query and an index eventually ends with a StopEvent carrying the
\* synthesized response, unless the retriever or the synthesizer raises; a
\* run started with a missing or empty query or with index None runs retrieve
\* alone and never ends with a StopEvent.
C22_OrderThenStop ==
    /\ [](/\ IsPrefix(StepsRun(trace), CitationOrder)
          /\ run.status = "stopped" => (ValidStart /\ StoppedWithResponse)
          /\ ~ValidStart => IsPrefix(StepsRun(trace), << "retrieve" >>))
    /\ (ValidStart ~> (StoppedWithResponse \/ run.status = "failed"))
    /\ (~ValidStart ~> [](wf_events = << >> /\ run.status # "stopped"))

\* a run with two retrieved nodes has ended with a response
C22_Witness ==
    /\ StoppedWithResponse
    /\ ValidStart
    /\ Len(run.result.source_nodes) >= 2
    /\ wf_events = << >>

NoQuery == run.start.query = "None" \/ run.start.query = ""

\* C23: a StartEvent with a missing or empty query, or with index None,
\* gives no RetrieverEvent: no retrieval is made and create_citation_nodes
\* and synthesize never run; with a missing or empty query nothing is
\* written to the context store, with a non-empty query and index None the
\* query is in the store when retrieve has returned None.
C23_NoRetrieverEvent ==
    /\ (NoQuery \/ run.start.index = "None") =>
          /\ ~DidAny(trace, "emit", "RetrieverEvent")
          /\ ~DidAny(trace, "call", "retriever.retrieve")
          /\ IsPrefix(StepsRun(trace), << "retrieve" >>)
          /\ \A i \in 1..Len(wf_events) : wf_events[i].type = "StartEvent"
          /\ run.status = "running"
    /\ NoQuery =>
          /\ ctx_store = << >>
          /\ ~DidAny(trace, "ctx.set", "query")
    /\ (~NoQuery /\ run.start.index = "None" /\ StepsRun(trace) # << >>) =>
          /\ DOMAIN ctx_store = {"query"}
          /\ ctx_store["query"] = run.start.query
          /\ wf_events = << >>

\* retrieve has returned None for a non-empty query and index None
C23_Witness ==
    /\ ~NoQuery
    /\ run.start.index = "None"
    /\ StepsRun(trace) = << "retrieve" >>
    /\ ctx_store # << >>
    /\ wf_events = << >>

\* the chunks and scores of the retrieved nodes, in the order of the nodes
\* and of the chunks within each node
RECURSIVE Flat(_)
Flat(nodes) ==
    IF nodes = << >> THEN << >>
    ELSE [i \in 1..Len(Head(nodes).chunks) |->
             [chunk |-> Head(nodes).chunks[i], score |-> Head(nodes).score]]
         \o Flat(Tail(nodes))

\* C24: create_citation_nodes labels the chunks 'Source 1' .. 'Source N'
\* with consecutive numbers, in the order of the retrieved nodes and of the
\* chunks within each node, N being the number of chunks over all retrieved
\* nodes; each new node has the score of the node it was split from; an empty
\* retrieved list gives an empty CreateCitationsEvent.
C24_SourceNumbers ==
    [][(Running("RetrieverEvent") /\ wf_events' # << >>
           /\ Head(wf_events').type = "CreateCitationsEvent") =>
          LET old == Head(wf_events).nodes
              new == Head(wf_events').nodes
          IN  /\ Len(new) = Len(Flat(old))
              /\ \A i \in 1..Len(new) :
                    /\ new[i].text.source = i
                    /\ new[i].text.chunk = Flat(old)[i].chunk
                    /\ new[i].score = Flat(old)[i].score
              /\ old = << >> => new = << >>]_vars

\* citations made of two retrieved nodes with different scores, the first
\* with two chunks
C24_Witness ==
    /\ wf_events # << >>
    /\ Head(wf_events).type = "CreateCitationsEvent"
    /\ Len(Head(wf_events).nodes) >= 3
    /\ Head(wf_events).nodes[1].score = Head(wf_events).nodes[2].score
    /\ Head(wf_events).nodes[2].score # Head(wf_events).nodes[3].score

\* ---------------------------------------------------- SelfDiscoverWorkflow
\* workflow.run(task=..., llm=...); "None" stands for None and for a keyword
\* left out
Tasks == {"None", "", "Michael has 15 oranges"}

Llms == {"None", "gpt-4o", "other-llm"}

\* what a completion may say
Texts == {"text1", "text2", "text3"}

SelfDiscoverStart(task, llm) == [type |-> "StartEvent", task |-> task, llm |-> llm]

\* mutant: get_modules returns the event that create_reasoning_structure takes
GetModulesEventAsRefined(task, modules) ==
    [type |-> "RefineModulesEvent", task |-> task, refined_modules |-> modules]

GetModulesEvent(task, modules) ==
    [type |-> "GetModulesEvent", task |-> task, modules |-> modules]

\* mutant: the task is not passed on
RefineModulesEventNoTask(task, refined_modules) ==
    [type |-> "RefineModulesEvent", task |-> "None",
     refined_modules |-> refined_modules]

RefineModulesEvent(task, refined_modules) ==
    [type |-> "RefineModulesEvent", task |-> task,
     refined_modules |-> refined_modules]

ReasoningStructureEvent(task, reasoning_structure) ==
    [type |-> "ReasoningStructureEvent", task |-> task,
     reasoning_structure |-> reasoning_structure]

\* TEMPLATE.format(task=task, <name>=arg)
Prompt(template, task, arg) == [template |-> template, task |-> task, arg |-> arg]

\* what llm.complete(prompt) returns when the completion says text
CompletionResponse(llm, prompt, text) ==
    [type |-> "CompletionResponse", llm |-> llm, prompt |-> prompt, text |-> text]

\* str(result)
Str(result) == result.text

\* mutant: only task is checked
RequiredTaskOnly(task, llm) == task = "None"

\* `task is None or llm is None`
Required(task, llm) == task = "None" \/ llm = "None"

InitSelfDiscover ==
    /\ NoMemory
    /\ \E task \in Tasks, llm \in Llms :
          /\ wf_events = << SelfDiscoverStart(task, llm) >>
          /\ run = [status |-> "running", result |-> "None",
                    start |-> SelfDiscoverStart(task, llm)]
    /\ ctx_store = << >>
    /\ trace = << >>

\* the rest of a step after it has its llm and its prompt: complete, return
\* the event made of the result; returns[text] is the event the step
\* returns when the completion says text
CompleteThen(did, llm, returns) ==
    LET called == did \o << DidVal("call", "llm.complete", llm) >>
    IN  \/ \E text \in Texts :
              LET ev == returns[text]
              IN  /\ trace' = trace \o called
                        \o << DidVal("emit", ev.type,
                                     IF ev.type = "StopEvent" THEN "None"
                                     ELSE ev.task) >>
                  /\ wf_events' = Tail(wf_events) \o << ev >>
                  /\ run' = run
        \/ Fails(called)

\* get_modules(ctx, ev: StartEvent)
GetModules ==
    /\ Running("StartEvent")
    /\ LET ev == Head(wf_events)
           task == ev.task
           llm == ev.llm
           prompt == Prompt("SELECT_PRMOPT_TEMPLATE", task, "_REASONING_MODULES")
           result(text) == CompletionResponse(llm, prompt, text)
       IN  IF Required(task, llm)
           THEN /\ trace' = trace \o << Did("step", "get_modules"),
                                        Did("raise", "ValueError") >>
                /\ wf_events' = << >>
                /\ run' = [run EXCEPT !.status = "failed"]
                /\ ctx_store' = ctx_store
           ELSE /\ ctx_store' = StoreSet(ctx_store, "llm", llm)
                /\ CompleteThen(<< Did("step", "get_modules"),
                                   DidVal("ctx.set", "llm", llm) >>,
                                llm,
                                [text \in Texts |->
                                    GetModulesEvent(task, Str(result(text)))])
    /\ UNCHANGED memory_side

\* refine_modules(ctx, ev: GetModulesEvent)
RefineModules ==
    /\ Running("GetModulesEvent")
    /\ LET ev == Head(wf_events)
           task == ev.task
           llm == StoreGet(ctx_store, "llm")
           prompt == Prompt("ADAPT_PROMPT_TEMPLATE", task, ev.modules)
           result(text) == CompletionResponse(llm, prompt, text)
       IN  CompleteThen(<< Did("step", "refine_modules"),
                           DidVal("ctx.get", "llm", llm) >>,
                        llm,
                        [text \in Texts |->
                            RefineModulesEvent(task, Str(result(text)))])
    /\ UNCHANGED << ctx_store, memory_side >>

\* create_reasoning_structure(ctx, ev: RefineModulesEvent)
CreateReasoningStructure ==
    /\ Running("RefineModulesEvent")
    /\ LET ev == Head(wf_events)
           task == ev.task
           llm == StoreGet(ctx_store, "llm")
           prompt == Prompt("IMPLEMENT_PROMPT_TEMPLATE", task, ev.refined_modules)
           result(text) == CompletionResponse(llm, prompt, text)
       IN  CompleteThen(<< Did("step", "create_reasoning_structure"),
                           DidVal("ctx.get", "llm", llm) >>,
                        llm,
                        [text \in Texts |->
                            ReasoningStructureEvent(task, Str(result(text)))])
    /\ UNCHANGED << ctx_store, memory_side >>

\* get_final_result(ctx, ev: ReasoningStructureEvent)
GetFinalResult ==
    /\ Running("ReasoningStructureEvent")
    /\ LET ev == Head(wf_events)
           task == ev.task
           llm == StoreGet(ctx_store, "llm")
           prompt == Prompt("REASONING_PROMPT_TEMPLATE", task,
                            ev.reasoning_structure)
           result(text) == CompletionResponse(llm, prompt, text)
       IN  CompleteThen(<< Did("step", "get_final_result"),
                           DidVal("ctx.get", "llm", llm) >>,
                        llm,
                        [text \in Texts |-> StopEvent(result(text))])
    /\ UNCHANGED << ctx_store, memory_side >>

NextSelfDiscover ==
    \/ GetModules
    \/ RefineModules
    \/ CreateReasoningStructure
    \/ GetFinalResult
    \/ StopRun

\* the workflow runs a step whenever an event it accepts is in flight
SpecSelfDiscover ==
    InitSelfDiscover /\ [][NextSelfDiscover]_vars /\ WF_vars(NextSelfDiscover)

SelfDiscoverOrder ==
    << "get_modules", "refine_modules", "create_reasoning_structure",
       "get_final_result" >>

\* the event each step waits for
Awaited ==
    [get_modules |-> "StartEvent",
     refine_modules |-> "GetModulesEvent",
     create_reasoning_structure |-> "RefineModulesEvent",
     get_final_result |-> "ReasoningStructureEvent"]

\* the run was started with a task and an llm
GivenBoth == run.start.task # "None" /\ run.start.llm # "None"

HowMany(tr, op, arg) ==
    Cardinality({ i \in 1..Len(tr) : tr[i].op = op /\ tr[i].arg = arg })

\* every step in the trace other than the first comes after the emission
\* of the event it waits for
AfterItsEvent ==
    \A i \in 1..Len(trace) :
       (trace[i].op = "step" /\ trace[i].arg # "get_modules") =>
           \E j \in 1..(i - 1) :
              /\ trace[j].op = "emit"
              /\ trace[i].arg \in DOMAIN Awaited
              /\ trace[j].arg = Awaited[trace[i].arg]

\* the run has ended by its one StopEvent after the four steps and four
\* completions
StoppedAfterFour ==
    /\ run.status = "stopped"
    /\ StepsRun(trace) = SelfDiscoverOrder
    /\ HowMany(trace, "call", "llm.complete") = 4
    /\ HowMany(trace, "emit", "StopEvent") = 1
    /\ run.result.type = "CompletionResponse"

\* C25: in a run started with a task and an llm, the steps run in the order
\* get_modules, refine_modules, create_reasoning_structure,
\* get_final_result, none twice, each after the event of the step before it
\* was emitted and each making one LLM completion; unless a completion
\* raises, the run eventually stops, and a stopped run has run the four
\* steps, made four completions and emitted one StopEvent.
C25_FourStepsThenStop ==
    /\ [](GivenBoth =>
            /\ IsPrefix(StepsRun(trace), SelfDiscoverOrder)
            /\ AfterItsEvent
            /\ HowMany(trace, "call", "llm.complete") = Len(StepsRun(trace))
            /\ HowMany(trace, "emit", "StopEvent") <= 1
            /\ (run.status = "stopped" => StoppedAfterFour)
            /\ ~(wf_events = << >> /\ run.status = "running"))
    /\ (GivenBoth ~> (StoppedAfterFour \/ DidAny(trace, "raise", "error")))

\* a run given a task and an llm has stopped with the final completion
C25_Witness ==
    /\ GivenBoth
    /\ StoppedAfterFour
    /\ wf_events = << >>

\* the StartEvent lacks task or llm
Lacks == run.start.task = "None" \/ run.start.llm = "None"

\* C26: when the StartEvent lacks task or llm, get_modules does nothing but
\* raise ValueError: nothing is written to the context store, no LLM call
\* is made, no event is emitted, the run has failed and no other step ever
\* runs; get_modules raises ValueError in no other run.
C26_ValueErrorFirst ==
    /\ Lacks =>
         /\ ctx_store = << >>
         /\ \/ trace = << >> /\ run.status = "running"
            \/ /\ trace = << Did("step", "get_modules"),
                             Did("raise", "ValueError") >>
               /\ run.status = "failed"
               /\ wf_events = << >>
    /\ DidAny(trace, "raise", "ValueError") => Lacks

\* get_modules has raised for a StartEvent with a task and no llm
C26_Witness ==
    /\ run.start.task # "None"
    /\ run.start.llm = "None"
    /\ DidAny(trace, "raise", "ValueError")
    /\ run.status = "failed"

TaskEvents == {"GetModulesEvent", "RefineModulesEvent", "ReasoningStructureEvent"}

\* C27: every read of the context key "llm" comes after get_modules wrote
\* the StartEvent's llm under that key and returns that llm, which is also
\* the llm every completion is asked of; every GetModulesEvent,
\* RefineModulesEvent and ReasoningStructureEvent, emitted or in flight,
\* carries the StartEvent's task.
C27_SameLlmSameTask ==
    /\ \A i \in 1..Len(trace) :
          /\ (trace[i].op = "ctx.get" /\ trace[i].arg = "llm") =>
                /\ trace[i].val = run.start.llm
                /\ \E j \in 1..(i - 1) :
                      /\ trace[j] = DidVal("ctx.set", "llm", run.start.llm)
                      /\ \E k \in 1..j : trace[k] = Did("step", "get_modules")
          /\ trace[i].op = "call" => trace[i].val = run.start.llm
          /\ (trace[i].op = "emit" /\ trace[i].arg \in TaskEvents) =>
                trace[i].val = run.start.task
    /\ \A i \in 1..Len(wf_events) :
          wf_events[i].type \in TaskEvents =>
              wf_events[i].task = run.start.task

\* the three later steps have each read the llm and the last of the three
\* events has been emitted
C27_Witness ==
    /\ HowMany(trace, "ctx.get", "llm") = 3
    /\ DidAny(trace, "emit", "ReasoningStructureEvent")
    /\ run.start.llm = "other-llm"
    /\ run.start.task = ""

\* ------------------------------------------- two copies of one session
\* two sessions of one process, with the same configuration, fed the same
\* calls one after the other
Copies == << "test-mem-01", "test-mem-02" >>

\* append(sid, batch) on the store st = [arena, lists]
AppendTo(st, sid, batch, flushes) ==
    LET r == Resolved(st.arena, st.lists, sid)
        lv == r.arena[sid].live \o batch
    IN  IF flushes THEN SessionFlush(r.arena, r.lists, sid, lv)
        ELSE [arena |-> [r.arena EXCEPT ![sid].live = lv], lists |-> r.lists]

\* flush(sid) on the store st
FlushOf(st, sid) ==
    LET r == Resolved(st.arena, st.lists, sid)
    IN  SessionFlush(r.arena, r.lists, sid, r.arena[sid].live)

\* render(sid) on the store st: the store after it and the output
RenderOf(st, sid) ==
    LET r == Resolved(st.arena, st.lists, sid)
    IN  [arena |-> r.arena, lists |-> r.lists,
         out |-> RenderOut(r.arena[sid].live, r.lists[r.arena[sid].block])]

\* the same append on the first copy, then on the second
CopiesAppend(batch, flushes) ==
    /\ Len(appended) + Len(batch) <= MaxSessionTurns
    /\ lastOp' = "append"
    /\ out' = << >>
    /\ appended' = appended \o batch
    /\ LET one == AppendTo([arena |-> arena, lists |-> lists],
                           Copies[1], batch, flushes)
           two == AppendTo(one, Copies[2], batch, flushes)
       IN  /\ arena' = two.arena
           /\ lists' = two.lists
    /\ call' = Ok(Copies[2])
    /\ UNCHANGED << live, current_memory, lastBatch, moved, evicted, pending,
                    config, programs >>

\* the same flush on both
CopiesFlush ==
    /\ lastOp' = "flush"
    /\ out' = << >>
    /\ LET one == FlushOf([arena |-> arena, lists |-> lists], Copies[1])
           two == FlushOf(one, Copies[2])
       IN  /\ arena' = two.arena
           /\ lists' = two.lists
    /\ call' = Ok(Copies[2])
    /\ UNCHANGED << live, current_memory, lastBatch, moved, appended, evicted,
                    pending, config, programs >>

\* the same render on both; out holds the two outputs, the first copy's
\* first
CopiesRender ==
    /\ lastOp' = "render"
    /\ LET one == RenderOf([arena |-> arena, lists |-> lists], Copies[1])
           two == RenderOf(one, Copies[2])
       IN  /\ arena' = two.arena
           /\ lists' = two.lists
           /\ out' = << one.out, two.out >>
    /\ call' = Ok(Copies[2])
    /\ UNCHANGED << live, current_memory, lastBatch, moved, appended, evicted,
                    pending, config, programs >>

InitCopies == InitSessions

NextCopies ==
    \/ \E m \in Messages, flushes \in BOOLEAN : CopiesAppend(<< m >>, flushes)
    \/ CopiesFlush
    \/ CopiesRender

SpecCopies == InitCopies /\ [][NextCopies]_vars

Templates == {"", "text_qa", "refine"}

LLMPredictStartEvent(template) ==
    [kind |-> "LLMPredictStartEvent", template |-> template]

\* an event of another class: it has no template
OtherEvent(kind) == [kind |-> kind, template |-> "None"]

BaseEvents ==
    { LLMPredictStartEvent(t) : t \in Templates }
       \cup { OtherEvent(k) : k \in {"LLMPredictEndEvent", "QueryStartEvent"} }

\* mutant: every event is taken
IsInstanceAny(event) == TRUE

\* isinstance(event, LLMPredictStartEvent)
IsInstance(event) == event.kind = "LLMPredictStartEvent"

\* handle(self, event)
Handle(self, event) ==
    /\ Len(handled) < MaxEvents
    /\ handled' = Append(handled, [handler |-> self, event |-> event])
    /\ IF IsInstance(event)
       THEN /\ PROMPT_TEMPLATE' = [PROMPT_TEMPLATE EXCEPT ![self] = event.template]
            /\ events' = Append(events, event)
       ELSE UNCHANGED << PROMPT_TEMPLATE, events >>
    /\ UNCHANGED << memory_state, workflow >>

InitHandlers ==
    /\ NoMemory
    /\ NoWorkflow

NextHandlers == \E self \in Handlers, event \in BaseEvents : Handle(self, event)

SpecHandlers == InitHandlers /\ [][NextHandlers]_vars

\* the LLMPredictStartEvents among the handle calls h, in order
RECURSIVE StartsOf(_)
StartsOf(h) ==
    IF h = << >> THEN << >>
    ELSE (IF Head(h).event.kind = "LLMPredictStartEvent"
          THEN << Head(h).event >> ELSE << >>) \o StartsOf(Tail(h))

\* the handle calls h made on the handler self
RECURSIVE CallsOn(_, _)
CallsOn(h, self) ==
    IF h = << >> THEN << >>
    ELSE (IF Head(h).handler = self THEN << Head(h) >> ELSE << >>)
         \o CallsOn(Tail(h), self)

\* the template of the last of the events evs, "" if there is none
LastTemplate(evs) == IF evs = << >> THEN "" ELSE evs[Len(evs)].template

\* C29: the class-level events list is the sequence of the
\* LLMPredictStartEvents handled so far by all instances, in handling
\* order, and every instance's PROMPT_TEMPLATE is the template of the last
\* LLMPredictStartEvent that instance handled, "" if it handled none;
\* events of other kinds are in neither.
C29_EventsAndTemplate ==
    /\ events = StartsOf(handled)
    /\ \A self \in Handlers :
          PROMPT_TEMPLATE[self] = LastTemplate(StartsOf(CallsOn(handled, self)))

\* both instances have handled an LLMPredictStartEvent, with different
\* templates, and the last event handled was of another kind
C29_Witness ==
    /\ Len(handled) = MaxEvents
    /\ Len(events) = 2
    /\ handled[MaxEvents].event.kind # "LLMPredictStartEvent"
    /\ PROMPT_TEMPLATE["event_handler"] = "text_qa"
    /\ PROMPT_TEMPLATE["event_handler2"] = "refine"

====
